---- MODULE Spec2Model ----
(***************************************************************************)
(* Model of pairwise_heatmap.py: FASTA parsing (load_sequences), the       *)
(* external alignment step (run_mafft), the pairwise identity matrix       *)
(* (compute_identity_matrix) and the report written by main.               *)
(*                                                                         *)
(* Text is a sequence of one-character strings over ASCII.  A file is its  *)
(* text; it is read with universal newlines.  A matrix cell holds a        *)
(* percentage in                                                           *)
(* hundredths (7500 is 75.00), a formatted cell holds tenths (750 is the   *)
(* text "75.0").                                                           *)
(***************************************************************************)
EXTENDS Integers, Sequences, FiniteSets, TLC

VARIABLES pc, argv, outputPath, inputFile, alnFile, input_fasta, output_folder,
          seqs, order, matrix, summary, heatmaps, status, raised, stderr, returncode

vars == <<pc, argv, outputPath, inputFile, alnFile, input_fasta, output_folder,
          seqs, order, matrix, summary, heatmaps, status, raised, stderr, returncode>>

----------------------------------------------------------------------------
(* Bounds of the model.                                                    *)

MaxTextLen == 6
MaxAlnLen == 3
MaxRecs == 3
MaxArgs == 4
MaxLines == 5

----------------------------------------------------------------------------
(* Python str operations used by the script.                               *)

(* The ASCII characters str.strip() removes: space, \t, \n, \v, \f, \r and  *)
(* the separators \x1c to \x1f.                                             *)
Whitespace == {" ", "\t", "\n", "", "\f", "\r", "", "", "", ""}

LowerCase ==
    <<"a", "b", "c", "d", "e", "f", "g", "h", "i", "j", "k", "l", "m",
      "n", "o", "p", "q", "r", "s", "t", "u", "v", "w", "x", "y", "z">>
UpperCase ==
    <<"A", "B", "C", "D", "E", "F", "G", "H", "I", "J", "K", "L", "M",
      "N", "O", "P", "Q", "R", "S", "T", "U", "V", "W", "X", "Y", "Z">>

UpperChar(c) ==
    IF \E k \in 1..26 : LowerCase[k] = c
    THEN UpperCase[CHOOSE k \in 1..26 : LowerCase[k] = c]
    ELSE c

upper(s) == [k \in 1..Len(s) |-> UpperChar(s[k])]

RECURSIVE lstrip(_)
lstrip(s) ==
    IF s # <<>> /\ Head(s) \in Whitespace THEN lstrip(Tail(s)) ELSE s

RECURSIVE rstrip(_)
rstrip(s) ==
    IF s # <<>> /\ s[Len(s)] \in Whitespace
    THEN rstrip(SubSeq(s, 1, Len(s) - 1))
    ELSE s

strip(s) == rstrip(lstrip(s))

startswith(s, c) == Len(s) > 0 /\ s[1] = c

(* "".join(parts) *)
RECURSIVE join(_)
join(parts) ==
    IF parts = <<>> THEN <<>> ELSE Head(parts) \o join(Tail(parts))

(* Iterating a file opened in text mode: the lines of the text, each with  *)
(* its terminator, the last one possibly without.  "\r\n" and a lone "\r"  *)
(* end a line too, and reach the loop as "\n".                             *)
RECURSIVE readlines(_, _)
readlines(text, cur) ==
    IF text = <<>>
    THEN IF cur = <<>> THEN <<>> ELSE <<cur>>
    ELSE IF Head(text) = "\n"
         THEN <<Append(cur, "\n")>> \o readlines(Tail(text), <<>>)
    ELSE IF Head(text) = "\r"
         THEN <<Append(cur, "\n")>>
              \o readlines(IF Len(text) > 1 /\ text[2] = "\n"
                           THEN Tail(Tail(text)) ELSE Tail(text), <<>>)
         ELSE readlines(Tail(text), Append(cur, Head(text)))

(* d[key] = value on a dict *)
setitem(d, key, value) ==
    [k \in DOMAIN d \cup {key} |-> IF k = key THEN value ELSE d[k]]

EmptyDict == [k \in {} |-> <<>>]

(* Python's None for the local `header`; no text equals it. *)
None == <<"None">>

(* `if header:` is false for None and for the empty string. *)
truthy(h) == h # None /\ h # <<>>

----------------------------------------------------------------------------
(* load_sequences                                                          *)

(* Variant: a record closed by the next header is stored as read, not     *)
(* upper-cased.                                                            *)
RECURSIVE load_loop_keeps_case(_, _)
load_loop_keeps_case(lines, st) ==
    IF lines = <<>>
    THEN st
    ELSE LET line == Head(lines) IN
         IF startswith(line, ">")
         THEN LET flushed == IF truthy(st.header)
                             THEN setitem(st.sequences, st.header, join(st.seq))
                             ELSE st.sequences
                  hdr == Tail(strip(line))
              IN  load_loop_keeps_case(Tail(lines),
                            [sequences |-> flushed,
                             order |-> Append(st.order, hdr),
                             header |-> hdr,
                             seq |-> <<>>])
         ELSE load_loop_keeps_case(Tail(lines),
                        [st EXCEPT !.seq = Append(st.seq, strip(line))])

RECURSIVE load_loop(_, _)
load_loop(lines, st) ==
    IF lines = <<>>
    THEN st
    ELSE LET line == Head(lines) IN
         IF startswith(line, ">")
         THEN LET flushed == IF truthy(st.header)
                             THEN setitem(st.sequences, st.header, upper(join(st.seq)))
                             ELSE st.sequences
                  hdr == Tail(strip(line))
              IN  load_loop(Tail(lines),
                            [sequences |-> flushed,
                             order |-> Append(st.order, hdr),
                             header |-> hdr,
                             seq |-> <<>>])
         ELSE load_loop(Tail(lines),
                        [st EXCEPT !.seq = Append(st.seq, strip(line))])

load_sequences(text) ==
    LET st == load_loop(readlines(text, <<>>),
                        [sequences |-> EmptyDict, order |-> <<>>,
                         header |-> None, seq |-> <<>>])
        final == IF truthy(st.header)
                 THEN setitem(st.sequences, st.header, upper(join(st.seq)))
                 ELSE st.sequences
    IN  [sequences |-> final, order |-> st.order]

----------------------------------------------------------------------------
(* compute_identity_matrix                                                 *)

(* Variant: the gap filter of the generator is dropped. *)
RECURSIVE matches_unfiltered(_, _)
matches_unfiltered(x, y) ==
    IF x = <<>> \/ y = <<>>
    THEN 0
    ELSE (IF Head(x) = Head(y) THEN 1 ELSE 0) + matches_unfiltered(Tail(x), Tail(y))

(* sum(a == b for a, b in zip(x, y) if a != "-" and b != "-") *)
RECURSIVE matches(_, _)
matches(x, y) ==
    IF x = <<>> \/ y = <<>>
    THEN 0
    ELSE (IF Head(x) # "-" /\ Head(y) # "-" /\ Head(x) = Head(y) THEN 1 ELSE 0)
         + matches(Tail(x), Tail(y))

(* Variant: only the first sequence is tested for a gap. *)
RECURSIVE length_first(_, _)
length_first(x, y) ==
    IF x = <<>> \/ y = <<>>
    THEN 0
    ELSE (IF Head(x) # "-" THEN 1 ELSE 0) + length_first(Tail(x), Tail(y))

(* sum((a != "-" and b != "-") for a, b in zip(x, y)) *)
RECURSIVE length(_, _)
length(x, y) ==
    IF x = <<>> \/ y = <<>>
    THEN 0
    ELSE (IF Head(x) # "-" /\ Head(y) # "-" THEN 1 ELSE 0)
         + length(Tail(x), Tail(y))

(* The side of the exact quotient n / d on which the double nearest to it  *)
(* lies: 0 when the double is n / d itself, 1 above, -1 below.  With e the *)
(* binary exponent of n / d, the 53-bit significand is n * 2^(52 - e) / d  *)
(* rounded to an integer, so the remainder of n * 2^(52 - e) by d decides. *)
RECURSIVE pow2mod(_, _)
pow2mod(s, d) == IF s = 0 THEN 1 % d ELSE (2 * pow2mod(s - 1, d)) % d

RECURSIVE log2_up(_, _, _)
log2_up(n, d, e) == IF 2 * d * (2 ^ e) <= n THEN log2_up(n, d, e + 1) ELSE e

RECURSIVE log2_down(_, _, _)
log2_down(n, d, k) == IF n * (2 ^ k) >= d THEN 0 - k ELSE log2_down(n, d, k + 1)

float_exponent(n, d) == IF n >= d THEN log2_up(n, d, 0) ELSE log2_down(n, d, 1)

float_remainder(n, d) ==
    IF n = 0 THEN 0
    ELSE ((n % d) * pow2mod(52 - float_exponent(n, d), d)) % d

float_side(n, d) ==
    LET r == float_remainder(n, d)
    IN  IF r = 0 THEN 0 ELSE IF 2 * r > d THEN 1 ELSE -1

(* round(100.0 * m / l, 2) in hundredths.  100.0 * m / l is the double     *)
(* nearest to 100 * m / l, and round gives the hundredth nearest to that   *)
(* double: when 100 * m / l lies halfway between two hundredths, at        *)
(* (2q + 1) / 200, the side of the double decides, and the even hundredth  *)
(* when the double is the halfway point itself.                            *)
round_2(m, l) ==
    LET q == (10000 * m) \div l
        r == (10000 * m) % l
        side == float_side(2 * q + 1, 200)
    IN  IF 2 * r > l THEN q + 1
        ELSE IF 2 * r < l THEN q
        ELSE IF side = 1 THEN q + 1
        ELSE IF side = -1 THEN q
        ELSE IF q % 2 = 1 THEN q + 1 ELSE q

(* Variant: an empty overlap counts as full identity. *)
pair_identity_full_when_empty(x, y) ==
    LET m == matches(x, y)
        l == length(x, y)
    IN  IF l > 0 THEN round_2(m, l) ELSE 10000

(* One off-diagonal cell: round(identity, 2), in hundredths. *)
pair_identity(x, y) ==
    LET m == matches(x, y)
        l == length(x, y)
    IN  IF l > 0 THEN round_2(m, l) ELSE 0

(* Variant: the diagonal is compared like any other cell. *)
cell_compared(aligned, i, j) == pair_identity(aligned[i], aligned[j])

cell(aligned, i, j) ==
    IF i = j THEN 10000 ELSE pair_identity(aligned[i], aligned[j])

(* Variant: a name the alignment lacks is looked up with a default. *)
compute_identity_matrix_skipping(aln_text, names) ==
    LET loaded == load_sequences(aln_text).sequences
        n == Len(names)
        aligned == [k \in 1..n |->
                      IF names[k] \in DOMAIN loaded THEN loaded[names[k]] ELSE <<>>]
    IN  [raised |-> "",
         cells |-> [i \in 1..n |-> [j \in 1..n |-> cell(aligned, i, j)]]]

(* The result of a call: the exception it raised ("" for none) and the     *)
(* matrix it returned.                                                     *)
compute_identity_matrix(aln_text, names) ==
    LET loaded == load_sequences(aln_text).sequences
        n == Len(names)
    IN  IF \E k \in 1..n : names[k] \notin DOMAIN loaded
        THEN [raised |-> "KeyError", cells |-> <<>>]
        ELSE LET aligned == [k \in 1..n |-> loaded[names[k]]]
             IN  [raised |-> "",
                  cells |-> [i \in 1..n |-> [j \in 1..n |-> cell(aligned, i, j)]]]

----------------------------------------------------------------------------
(* f"{value:.1f}": the value in tenths.  The cell is the double nearest to *)
(* c / 100; when c ends in 5 the digit printed depends on the side of      *)
(* c / 100 the double lies on.                                             *)

format_1f(c) ==
    LET t == c \div 10
        d == c % 10
        side == float_side(c, 100)
    IN  IF d < 5 THEN t
        ELSE IF d > 5 THEN t + 1
        ELSE IF side = 1 THEN t + 1
        ELSE IF side = -1 THEN t
        ELSE IF t % 2 = 1 THEN t + 1 ELSE t

----------------------------------------------------------------------------
(* The inputs of the model.                                                *)

X == <<"X">>
Y == <<"Y">>
Z == <<"Z">>
Ids == {X, Y, Z}

(* A FASTA text of the records recs, each <<identifier, sequence>>. *)
RECURSIVE render(_)
render(recs) ==
    IF recs = <<>> THEN <<>>
    ELSE <<">">> \o Head(recs)[1] \o <<"\n">> \o Head(recs)[2] \o <<"\n">>
         \o render(Tail(recs))

SeqsUpTo(S, n) == UNION {[1..k -> S] : k \in 0..n}

(* What a path names: nothing, a regular file with its text, a directory. *)
File(text) == [exists |-> TRUE, isdir |-> FALSE, text |-> text]
NoFile == [exists |-> FALSE, isdir |-> FALSE, text |-> <<>>]
Dir == [exists |-> TRUE, isdir |-> TRUE, text |-> <<>>]

(* The unaligned input of a run: up to MaxRecs records, an identifier      *)
(* possibly repeated, residues in lower case.                              *)
RawOf(id) == <<"a", "c">>
InputTexts ==
    {render([k \in DOMAIN ids |-> <<ids[k], RawOf(ids[k])>>]) : ids \in SeqsUpTo(Ids, MaxRecs)}

(* What the aligner may write: records in any order, possibly missing or   *)
(* repeated.                                                               *)
AlignedOf(id) ==
    CASE id = X -> <<"A", "A", "A", "A">>
      [] id = Y -> <<"A", "A", "C", "-">>
      [] OTHER -> <<"A", "-", "C", "C">>
AlnTexts ==
    {render([k \in DOMAIN ids |-> <<ids[k], AlignedOf(ids[k])>>]) : ids \in SeqsUpTo(Ids, MaxRecs)}

(* Command lines: sys.argv[0] followed by up to MaxArgs words. *)
Script == "pairwise_heatmap.py"
Words == {"--in", "--out", "x"}
CommandLines == {<<Script>> \o a : a \in SeqsUpTo(Words, MaxArgs)}
PipelineCommandLines ==
    { <<Script, "--in", "in.fasta", "--out", "out">>,
      <<Script, "--out", "out", "--in", "in.fasta">>,
      <<Script, "--in", "in.fasta">>,
      <<Script, "--in", "in.fasta", "--out">> }

(* Aligned sequences for the matrix alone: every string of up to MaxAlnLen *)
(* residues and gaps, and the four strings of the documented scenarios.    *)
Residues == {"A", "C", "-"}
Scenarios ==
    { <<"A", "C", "G", "T">>, <<"A", "C", "G", "A">>,
      <<"A", "C", "-", "T">>, <<"-", "C", "G", "T">> }
AlignedSeqs == SeqsUpTo(Residues, MaxAlnLen) \cup Scenarios

(* What the aligner may have written when it fails. *)
PartialTexts ==
    {render([k \in DOMAIN ids |-> <<ids[k], AlignedOf(ids[k])>>]) : ids \in SeqsUpTo(Ids, 1)}

(* FASTA texts for the parser alone: every text of up to MaxTextLen        *)
(* characters.                                                             *)
Alphabet == {">", "\n", "\r", "\t", " ", "a"}
FastaTexts == SeqsUpTo(Alphabet, MaxTextLen)

(* And every text of up to MaxLines lines, each of them a header (one with *)
(* a descriptive suffix), a sequence line in lower case (one with          *)
(* whitespace around it and a "\r\n" end) or a blank line.                 *)
FastaLines ==
    { <<">", "a", "\n">>,
      <<">", "b", " ", "c", " ", "\n">>,
      <<"a", "c", "\n">>,
      <<" ", "g", "\t", "\r", "\n">>,
      <<"\n">> }
RecordTexts == {join(ls) : ls \in SeqsUpTo(FastaLines, MaxLines)}

----------------------------------------------------------------------------
(* The state after construction.                                           *)

NoMatrix == [computed |-> FALSE, cells |-> <<>>]
NoSummary == [written |-> FALSE, text |-> <<>>]
NoHeatmaps == [f \in {} |-> <<>>]

(* The returncode subprocess.run reports for the command: the exit status  *)
(* of the shell, or -N when signal N ended the shell.  The signals that    *)
(* end a process are all but the ignored and the stopping ones (SIGCHLD,   *)
(* SIGCONT, SIGSTOP, SIGTSTP, SIGTTIN, SIGTTOU, SIGURG, SIGWINCH).         *)
(* check=True raises on every code but 0.  NotRun, the value before the    *)
(* command has run, is no return code.                                     *)
MaxExitStatus == 255
MaxSignal == 64
TerminatingSignals == (1..MaxSignal) \ {17, 18, 19, 20, 21, 22, 23, 28}
ReturnCodes == (0..MaxExitStatus) \cup {0 - n : n \in TerminatingSignals}
FailureCodes == ReturnCodes \ {0}
NotRun == MaxExitStatus + 1

Locals ==
    /\ input_fasta = ""
    /\ output_folder = ""
    /\ seqs = EmptyDict
    /\ order = <<>>
    /\ matrix = NoMatrix
    /\ summary = NoSummary
    /\ heatmaps = NoHeatmaps
    /\ status = -1
    /\ raised = ""
    /\ stderr = ""
    /\ returncode = NotRun

(* list.index(w), counted from 1 *)
index(args, w) == CHOOSE i \in 1..Len(args) :
                      /\ args[i] = w
                      /\ \A k \in 1..(i - 1) : args[k] # w

Range(f) == {f[k] : k \in DOMAIN f}

(* The command line names one path as input and as output folder. *)
SamePath(args) ==
    /\ "--in" \in Range(args)
    /\ "--out" \in Range(args)
    /\ index(args, "--in") + 1 <= Len(args)
    /\ index(args, "--out") + 1 <= Len(args)
    /\ args[index(args, "--in") + 1] = args[index(args, "--out") + 1]

(* The file system before the run: what the input path and the output     *)
(* path name, one thing when they are one path.                           *)
FileSystem(args, in, out) ==
    SamePath(args) =>
        /\ out = "absent" <=> ~in.exists
        /\ out = "dir" <=> in.isdir

(* A run of the script on a command line naming both arguments or not. *)
Init ==
    /\ pc = "start"
    /\ argv \in PipelineCommandLines
    /\ outputPath \in {"absent", "dir", "file"}
    /\ inputFile \in {NoFile, Dir} \cup {File(t) : t \in InputTexts}
    /\ FileSystem(argv, inputFile, outputPath)
    /\ alnFile = NoFile
    /\ Locals

(* A run of the script on any command line. *)
InitCli ==
    /\ pc = "start"
    /\ argv \in CommandLines
    /\ outputPath \in {"absent", "file"}
    /\ inputFile \in {NoFile, File(render(<<<<X, RawOf(X)>>, <<Y, RawOf(Y)>>>>))}
    /\ FileSystem(argv, inputFile, outputPath)
    /\ alnFile = NoFile
    /\ Locals

(* A call of load_sequences on any text. *)
InitLoad ==
    /\ pc = "call_load_sequences"
    /\ argv = <<>>
    /\ outputPath = "absent"
    /\ inputFile \in {File(t) : t \in FastaTexts \cup RecordTexts}
    /\ alnFile = NoFile
    /\ Locals

(* A call of compute_identity_matrix on an alignment of X and Y. *)
InitMatrix ==
    /\ pc = "call_compute_identity_matrix"
    /\ argv = <<>>
    /\ outputPath = "absent"
    /\ inputFile = NoFile
    /\ \E x \in AlignedSeqs, y \in AlignedSeqs :
          alnFile = File(render(<<<<X, x>>, <<Y, y>>>>))
    /\ input_fasta = ""
    /\ output_folder = ""
    /\ seqs = EmptyDict
    /\ order \in {<<X, Y>>, <<Y, X>>}
    /\ matrix = NoMatrix
    /\ summary = NoSummary
    /\ heatmaps = NoHeatmaps
    /\ status = -1
    /\ raised = ""
    /\ stderr = ""
    /\ returncode = NotRun

----------------------------------------------------------------------------
(* The text of summary.txt.                                                *)

Digit(d) ==
    CASE d = 0 -> "0" [] d = 1 -> "1" [] d = 2 -> "2" [] d = 3 -> "3"
      [] d = 4 -> "4" [] d = 5 -> "5" [] d = 6 -> "6" [] d = 7 -> "7"
      [] d = 8 -> "8" [] OTHER -> "9"

RECURSIVE decimal(_)
decimal(n) ==
    IF n < 10 THEN <<Digit(n)>> ELSE Append(decimal(n \div 10), Digit(n % 10))

(* f"{value:.1f}%" *)
percent_1f(c) ==
    LET t == format_1f(c)
    IN  decimal(t \div 10) \o <<".", Digit(t % 10), "%">>

(* "\t".join(fields) *)
RECURSIVE join_tab(_)
join_tab(fields) ==
    IF fields = <<>> THEN <<>>
    ELSE IF Len(fields) = 1 THEN Head(fields)
    ELSE Head(fields) \o <<"\t">> \o join_tab(Tail(fields))

summary_row(cells, names, i) ==
    join_tab(<<names[i]>> \o [j \in 1..Len(names) |-> percent_1f(cells[i][j])])
    \o <<"\n">>

summary_text(cells, names) ==
    <<"\t">> \o join_tab(names) \o <<"\n">>
    \o join([i \in 1..Len(names) |-> summary_row(cells, names, i)])

(* What plot_heatmap draws: the tick labels, the annotation of every cell  *)
(* in tenths, and the colour scale.                                        *)
heatmap(cells, names) ==
    [xticklabels |-> names,
     yticklabels |-> names,
     annot |-> [i \in 1..Len(cells) |-> [j \in 1..Len(cells[i]) |-> format_1f(cells[i][j])]],
     vmin |-> 60,
     vmax |-> 100]

----------------------------------------------------------------------------
(* The steps of a run.                                                     *)

(* An exception nothing catches: the traceback is printed and the          *)
(* interpreter exits with status 1.                                        *)
uncaught(exc) ==
    /\ pc' = "exit"
    /\ status' = 1
    /\ raised' = exc
    /\ stderr' = "Traceback"

(* The guard of __main__ fails: sys.exit(__usage__). *)
usage_exit ==
    /\ pc = "start"
    /\ ~("--in" \in Range(argv) /\ "--out" \in Range(argv))
    /\ pc' = "exit"
    /\ status' = 1
    /\ raised' = "SystemExit"
    /\ stderr' = "__usage__"
    /\ UNCHANGED <<argv, returncode, outputPath, inputFile, alnFile, input_fasta, output_folder,
                   seqs, order, matrix, summary, heatmaps>>

call_main ==
    /\ pc = "start"
    /\ "--in" \in Range(argv)
    /\ "--out" \in Range(argv)
    /\ pc' = "main"
    /\ UNCHANGED <<argv, returncode, outputPath, inputFile, alnFile, input_fasta, output_folder,
                   seqs, order, matrix, summary, heatmaps, status, raised, stderr>>

parse_arguments ==
    /\ pc = "main"
    /\ index(argv, "--in") + 1 <= Len(argv)
    /\ index(argv, "--out") + 1 <= Len(argv)
    /\ input_fasta' = argv[index(argv, "--in") + 1]
    /\ output_folder' = argv[index(argv, "--out") + 1]
    /\ pc' = "makedirs"
    /\ UNCHANGED <<argv, returncode, outputPath, inputFile, alnFile,
                   seqs, order, matrix, summary, heatmaps, status, raised, stderr>>

parse_arguments_fails ==
    /\ pc = "main"
    /\ \/ index(argv, "--in") + 1 > Len(argv)
       \/ index(argv, "--out") + 1 > Len(argv)
    /\ uncaught("IndexError")
    /\ input_fasta' = IF index(argv, "--in") + 1 <= Len(argv)
                      THEN argv[index(argv, "--in") + 1]
                      ELSE input_fasta
    /\ UNCHANGED <<argv, returncode, outputPath, inputFile, alnFile, output_folder,
                   seqs, order, matrix, summary, heatmaps>>

(* os.makedirs unless os.path.exists: a directory appears at the output    *)
(* path when nothing was there, also when it is the input path.            *)
make_output_folder ==
    /\ pc = "makedirs"
    /\ outputPath' = IF outputPath = "absent" THEN "dir" ELSE outputPath
    /\ inputFile' = IF outputPath = "absent" /\ input_fasta = output_folder
                    THEN Dir ELSE inputFile
    /\ pc' = "run_mafft"
    /\ UNCHANGED <<argv, returncode, alnFile, input_fasta, output_folder,
                   seqs, order, matrix, summary, heatmaps, status, raised, stderr>>

(* The aligner exits with status 0, having written some alignment into the *)
(* output folder.                                                          *)
run_mafft ==
    /\ pc = "run_mafft"
    /\ outputPath = "dir"
    /\ \E t \in AlnTexts : alnFile' = File(t)
    /\ returncode' = 0
    /\ pc' = "load"
    /\ UNCHANGED <<argv, outputPath, inputFile, input_fasta, output_folder,
                   seqs, order, matrix, summary, heatmaps, status, raised, stderr>>

(* Variant: the exit status of the aligner is not checked. *)
run_mafft_unchecked ==
    /\ pc = "run_mafft"
    /\ \/ alnFile' = alnFile
       \/ outputPath = "dir" /\ \E t \in PartialTexts : alnFile' = File(t)
    /\ returncode' \in FailureCodes
    /\ pc' = "load"
    /\ UNCHANGED <<argv, outputPath, inputFile, input_fasta, output_folder,
                   seqs, order, matrix, summary, heatmaps, status, raised, stderr>>

(* The command ends with another return code, an exit status of the shell  *)
(* or the signal that ended it: check=True raises.  Either the shell has   *)
(* not created the file of the redirection (the output path is a regular   *)
(* file, the folder cannot be written, the shell died before), or it has   *)
(* created it and the file holds whatever the aligner wrote.               *)
run_mafft_fails ==
    /\ pc = "run_mafft"
    /\ \/ alnFile' = alnFile
       \/ outputPath = "dir" /\ \E t \in PartialTexts : alnFile' = File(t)
    /\ returncode' \in FailureCodes
    /\ uncaught("CalledProcessError")
    /\ UNCHANGED <<argv, outputPath, inputFile, input_fasta, output_folder,
                   seqs, order, matrix, summary, heatmaps>>

load_input ==
    /\ pc = "load"
    /\ inputFile.exists
    /\ ~inputFile.isdir
    /\ seqs' = load_sequences(inputFile.text).sequences
    /\ order' = load_sequences(inputFile.text).order
    /\ pc' = "compute"
    /\ UNCHANGED <<argv, returncode, outputPath, inputFile, alnFile, input_fasta, output_folder,
                   matrix, summary, heatmaps, status, raised, stderr>>

(* open(fasta_file) raises: nothing at the path, or a directory. *)
load_input_fails ==
    /\ pc = "load"
    /\ ~inputFile.exists \/ inputFile.isdir
    /\ uncaught(IF inputFile.isdir THEN "IsADirectoryError" ELSE "FileNotFoundError")
    /\ UNCHANGED <<argv, returncode, outputPath, inputFile, alnFile, input_fasta, output_folder,
                   seqs, order, matrix, summary, heatmaps>>

compute_matrix ==
    /\ pc = "compute"
    /\ compute_identity_matrix(alnFile.text, order).raised = ""
    /\ matrix' = [computed |-> TRUE,
                  cells |-> compute_identity_matrix(alnFile.text, order).cells]
    /\ pc' = "write_summary"
    /\ UNCHANGED <<argv, returncode, outputPath, inputFile, alnFile, input_fasta, output_folder,
                   seqs, order, summary, heatmaps, status, raised, stderr>>

compute_matrix_fails ==
    /\ pc = "compute"
    /\ compute_identity_matrix(alnFile.text, order).raised # ""
    /\ uncaught(compute_identity_matrix(alnFile.text, order).raised)
    /\ UNCHANGED <<argv, returncode, outputPath, inputFile, alnFile, input_fasta, output_folder,
                   seqs, order, matrix, summary, heatmaps>>

write_summary ==
    /\ pc = "write_summary"
    /\ summary' = [written |-> TRUE, text |-> summary_text(matrix.cells, order)]
    /\ pc' = "plot_pdf"
    /\ UNCHANGED <<argv, returncode, outputPath, inputFile, alnFile, input_fasta, output_folder,
                   seqs, order, matrix, heatmaps, status, raised, stderr>>

plot_heatmap(output_file, here, next) ==
    /\ pc = here
    /\ heatmaps' = setitem(heatmaps, output_file, heatmap(matrix.cells, order))
    /\ pc' = next
    /\ UNCHANGED <<argv, returncode, outputPath, inputFile, alnFile, input_fasta, output_folder,
                   seqs, order, matrix, summary, raised, stderr>>

plot_pdf ==
    /\ plot_heatmap("heatmap.pdf", "plot_pdf", "plot_svg")
    /\ UNCHANGED status

(* The last statement of main: the interpreter exits with status 0. *)
plot_svg ==
    /\ plot_heatmap("heatmap.svg", "plot_svg", "exit")
    /\ status' = 0

Next ==
    \/ usage_exit
    \/ call_main
    \/ parse_arguments
    \/ parse_arguments_fails
    \/ make_output_folder
    \/ run_mafft
    \/ run_mafft_fails
    \/ load_input
    \/ load_input_fails
    \/ compute_matrix
    \/ compute_matrix_fails
    \/ write_summary
    \/ plot_pdf
    \/ plot_svg

Spec == Init /\ [][Next]_vars

SpecCli == InitCli /\ [][Next]_vars

(* The two functions called on their own. *)
call_load_sequences ==
    /\ pc = "call_load_sequences"
    /\ seqs' = load_sequences(inputFile.text).sequences
    /\ order' = load_sequences(inputFile.text).order
    /\ pc' = "returned"
    /\ UNCHANGED <<argv, returncode, outputPath, inputFile, alnFile, input_fasta, output_folder,
                   matrix, summary, heatmaps, status, raised, stderr>>

call_compute_identity_matrix ==
    /\ pc = "call_compute_identity_matrix"
    /\ matrix' = [computed |-> compute_identity_matrix(alnFile.text, order).raised = "",
                  cells |-> compute_identity_matrix(alnFile.text, order).cells]
    /\ raised' = compute_identity_matrix(alnFile.text, order).raised
    /\ pc' = "returned"
    /\ UNCHANGED <<argv, returncode, outputPath, inputFile, alnFile, input_fasta, output_folder,
                   seqs, order, summary, heatmaps, status, stderr>>

SpecLoad == InitLoad /\ [][call_load_sequences]_vars

SpecMatrix == InitMatrix /\ [][call_compute_identity_matrix]_vars

----------------------------------------------------------------------------
(* The vocabulary of the properties: a FASTA text read by position, not by *)
(* the loop of load_sequences.                                             *)

Abs(n) == IF n < 0 THEN 0 - n ELSE n

Min(a, b) == IF a < b THEN a ELSE b

RECURSIVE Ascending(_)
Ascending(S) ==
    IF S = {} THEN <<>>
    ELSE LET m == CHOOSE x \in S : \A y \in S : x <= y
         IN  <<m>> \o Ascending(S \ {m})

RECURSIVE Concat(_)
Concat(ss) == IF ss = <<>> THEN <<>> ELSE Head(ss) \o Concat(Tail(ss))

(* The positions at which a line of the text starts, and the line there. *)
(* A line ends at "\n" or "\r"; the "\n" of "\r\n" then stands as a line of  *)
(* its own that is blank.                                                  *)
Newlines == {"\n", "\r"}
LineStarts(text) ==
    {p \in 1..Len(text) : p = 1 \/ text[p - 1] \in Newlines}
LineEnd(text, p) ==
    CHOOSE q \in p..Len(text) :
        /\ text[q] \in Newlines \/ q = Len(text)
        /\ \A k \in p..(q - 1) : text[k] \notin Newlines
LineAt(text, p) == SubSeq(text, p, LineEnd(text, p))

HeaderStarts(text) == {p \in LineStarts(text) : text[p] = ">"}
HeaderId(text, p) == Tail(strip(LineAt(text, p)))
HeaderIds(text) ==
    LET hs == Ascending(HeaderStarts(text))
    IN  [k \in 1..Len(hs) |-> HeaderId(text, hs[k])]

(* The sequence lines between the header at p and the next header. *)
RecordLines(text, p) ==
    {q \in LineStarts(text) :
        /\ q > p
        /\ \A h \in HeaderStarts(text) : h > p => q < h}
RecordSeq(text, p) ==
    LET qs == Ascending(RecordLines(text, p))
    IN  upper(Concat([k \in 1..Len(qs) |-> strip(LineAt(text, qs[k]))]))

(* The identifiers of a list in the order of their first appearance. *)
RECURSIVE FirstAppearance(_)
FirstAppearance(ids) ==
    IF ids = <<>> THEN <<>>
    ELSE LET front == FirstAppearance(SubSeq(ids, 1, Len(ids) - 1))
             last == ids[Len(ids)]
         IN  IF last \in Range(front) THEN front ELSE Append(front, last)

NoDuplicates(ids) == \A i, j \in 1..Len(ids) : i # j => ids[i] # ids[j]

(* Every header names a record. *)
IsFasta(text) == \A p \in HeaderStarts(text) : HeaderId(text, p) # <<>>

(* Every header names a record of its own. *)
WellFormed(text) == IsFasta(text) /\ NoDuplicates(HeaderIds(text))

(* The aligned sequence filed under an identifier in an alignment. *)
AlignedSeq(text, id) ==
    RecordSeq(text, CHOOSE p \in HeaderStarts(text) : HeaderId(text, p) = id)

(* The columns of a pair in which neither sequence has a gap, and those of *)
(* them in which the residues agree.                                       *)
Overlap(a, b) ==
    {k \in 1..Min(Len(a), Len(b)) : a[k] # "-" /\ b[k] # "-"}
Agree(a, b) == {k \in Overlap(a, b) : a[k] = b[k]}

(* c hundredths is 100 * num / den rounded to two decimals. *)
IsRounded(c, num, den) == 2 * Abs(c * den - 10000 * num) <= den

IsIdentity(c, a, b) ==
    IF Overlap(a, b) = {} THEN c = 0
    ELSE IsRounded(c, Cardinality(Agree(a, b)), Cardinality(Overlap(a, b)))

OutputsWritten == summary.written \/ heatmaps # NoHeatmaps

----------------------------------------------------------------------------
(* C1: when the alignment command ends with a non-zero return code (an     *)
(* exit status or a signal) the run ends with a non-zero status and has    *)
(* written neither summary.txt nor a heatmap;                              *)
(* whenever summary.txt or a heatmap has been written, the aligner has     *)
(* exited with status 0 before.                                            *)
C1_AlignmentFailureAborts ==
    /\ returncode \notin {NotRun, 0} =>
          /\ pc = "exit"
          /\ status > 0
          /\ raised = "CalledProcessError"
          /\ ~OutputsWritten
    /\ OutputsWritten => returncode = 0

C1_Witness ==
    /\ pc = "exit"
    /\ returncode = -9
    /\ raised = "CalledProcessError"
    /\ status = 1
    /\ alnFile.exists
    /\ alnFile.text = <<>>

(* C2: the identifiers of the order list returned by load_sequences are    *)
(* the keys of the mapping it returns, and none occurs twice in the list.  *)
C2_OrderMatchesMapping ==
    (pc = "returned" /\ IsFasta(inputFile.text)) =>
        /\ Range(order) = DOMAIN seqs
        /\ NoDuplicates(order)

(* C3: when the alignment holds the identifiers of the input, the matrix   *)
(* has one row and one column per distinct identifier of the input, and    *)
(* row and column k of the matrix and of summary.txt belong to the k-th    *)
(* identifier in the order of first appearance in the input, whatever the  *)
(* order of the records of the alignment.                                  *)
C3_MatrixFollowsInputOrder ==
    LET ids == FirstAppearance(HeaderIds(inputFile.text))
        n == Len(ids)
        lines == Ascending(LineStarts(summary.text))
    IN  (/\ matrix.computed
         /\ Range(HeaderIds(alnFile.text)) = Range(HeaderIds(inputFile.text))) =>
            /\ Len(matrix.cells) = n
            /\ \A i \in 1..n : Len(matrix.cells[i]) = n
            /\ \A i, j \in 1..n :
                  i # j => IsIdentity(matrix.cells[i][j],
                                      AlignedSeq(alnFile.text, ids[i]),
                                      AlignedSeq(alnFile.text, ids[j]))
            /\ summary.written =>
                  /\ Len(lines) = n + 1
                  /\ \A k \in 1..n :
                        LET row == LineAt(summary.text, lines[k + 1])
                        IN  /\ Len(row) > Len(ids[k])
                            /\ SubSeq(row, 1, Len(ids[k])) = ids[k]
                            /\ row[Len(ids[k]) + 1] = "\t"

(* C4: an off-diagonal cell of a pair with at least one column in which    *)
(* neither sequence has a gap is 100 * numerator / denominator rounded to  *)
(* two decimals, the denominator counting those columns and the numerator  *)
(* those of them with equal residues; ACGT against ACGA gives 75.00 and    *)
(* AC-T against -CGT gives 100.00.                                         *)
C4_IdentityOfOverlap ==
    pc = "returned" =>
        \A i, j \in 1..Len(order) :
            LET a == AlignedSeq(alnFile.text, order[i])
                b == AlignedSeq(alnFile.text, order[j])
            IN  (i # j /\ Overlap(a, b) # {}) =>
                   /\ matrix.computed
                   /\ IsRounded(matrix.cells[i][j],
                                Cardinality(Agree(a, b)), Cardinality(Overlap(a, b)))
                   /\ (a = <<"A", "C", "G", "T">> /\ b = <<"A", "C", "G", "A">>) =>
                          matrix.cells[i][j] = 7500
                   /\ (a = <<"A", "C", "-", "T">> /\ b = <<"-", "C", "G", "T">>) =>
                          matrix.cells[i][j] = 10000

C4_Witness ==
    /\ pc = "returned"
    /\ order = <<X, Y>>
    /\ AlignedSeq(alnFile.text, X) = <<"A", "C", "G", "T">>
    /\ AlignedSeq(alnFile.text, Y) = <<"A", "C", "G", "A">>
    /\ matrix.cells[1][2] = 7500

(* C5: an off-diagonal cell of a pair with no column in which both         *)
(* sequences are free of gaps is 0, and the call raises nothing.           *)
C5_NoOverlapIsZero ==
    pc = "returned" =>
        \A i, j \in 1..Len(order) :
            (/\ i # j
             /\ Overlap(AlignedSeq(alnFile.text, order[i]),
                        AlignedSeq(alnFile.text, order[j])) = {}) =>
                /\ raised = ""
                /\ matrix.computed
                /\ matrix.cells[i][j] = 0

C5_Witness ==
    /\ pc = "returned"
    /\ AlignedSeq(alnFile.text, X) = <<"A", "-", "-">>
    /\ AlignedSeq(alnFile.text, Y) = <<"-", "C">>
    /\ matrix.computed
    /\ matrix.cells[1][2] = 0

(* C6: when an identifier of the order list parsed from the input is       *)
(* absent from the alignment, the run ends with a lookup failure, no       *)
(* matrix cell is computed, and neither summary.txt nor a heatmap is       *)
(* written.                                                                *)
C6_MissingIdentifierAborts ==
    (/\ pc # "compute"
     /\ \E k \in 1..Len(order) : order[k] \notin Range(HeaderIds(alnFile.text))) =>
        /\ pc = "exit"
        /\ raised = "KeyError"
        /\ status > 0
        /\ ~matrix.computed
        /\ matrix.cells = <<>>
        /\ ~OutputsWritten

C6_Witness ==
    /\ pc = "exit"
    /\ raised = "KeyError"
    /\ order = <<X, Y>>
    /\ HeaderIds(alnFile.text) = <<Y, Z>>

(* C7: the matrix is symmetric, also when the two aligned strings differ   *)
(* in length.                                                              *)
C7_Symmetric ==
    (pc = "returned" /\ matrix.computed) =>
        \A i, j \in 1..Len(order) : matrix.cells[i][j] = matrix.cells[j][i]

C7_Witness ==
    /\ pc = "returned"
    /\ Len(AlignedSeq(alnFile.text, X)) # Len(AlignedSeq(alnFile.text, Y))
    /\ matrix.cells[1][2] = 5000
    /\ matrix.cells[2][1] = 5000

(* C8: every diagonal cell is 100.00, whatever the sequence, an empty or   *)
(* all-gap one included.                                                   *)
C8_DiagonalIsHundred ==
    pc = "returned" =>
        /\ matrix.computed
        /\ \A i \in 1..Len(order) : matrix.cells[i][i] = 10000

C8_Witness ==
    /\ pc = "returned"
    /\ AlignedSeq(alnFile.text, order[1]) = <<>>
    /\ AlignedSeq(alnFile.text, order[2]) = <<"-", "-">>
    /\ matrix.cells[1][1] = 10000
    /\ matrix.cells[2][2] = 10000

(* The argument `flag <path>` is on the command line: the flag, followed   *)
(* by a word that is not a flag.                                           *)
Flags == {"--in", "--out"}
HasArgument(args, flag) ==
    \E i \in 2..(Len(args) - 1) : args[i] = flag /\ args[i + 1] \notin Flags

(* C9: started with the input argument (--in <path>) or the output         *)
(* argument (--out <path>) missing, the program creates no output          *)
(* directory, does not run the aligner, writes no file, and ends having    *)
(* printed the usage text, with a non-zero status.                         *)
C9_MissingArgumentPrintsUsage ==
    (~HasArgument(argv, "--in") \/ ~HasArgument(argv, "--out")) =>
        /\ pc = "exit" => (stderr = "__usage__" /\ status > 0)
        /\ outputPath # "dir"
        /\ returncode = NotRun
        /\ ~alnFile.exists
        /\ ~OutputsWritten

(* C10: for a text whose headers name distinct records, load_sequences     *)
(* returns the identifiers of the headers in file order, each the whole    *)
(* stripped header line after ">", and maps each to the upper-cased        *)
(* concatenation, in file order, of the lines between its header and the   *)
(* next, a blank line adding nothing.                                      *)
C10_ParsesRecords ==
    (pc = "returned" /\ WellFormed(inputFile.text)) =>
        /\ order = HeaderIds(inputFile.text)
        /\ DOMAIN seqs = Range(HeaderIds(inputFile.text))
        /\ \A p \in HeaderStarts(inputFile.text) :
              seqs[HeaderId(inputFile.text, p)] = RecordSeq(inputFile.text, p)

C10_Witness ==
    /\ pc = "returned"
    /\ inputFile.text = <<">", "b", " ", "c", " ", "\n",
                          "a", "c", "\n",
                          "\n",
                          " ", "g", "\t", "\r", "\n",
                          ">", "a", "\n">>
    /\ order = << <<"b", " ", "c">>, <<"a">> >>
    /\ seqs[<<"b", " ", "c">>] = <<"A", "C", "G">>
    /\ seqs[<<"a">>] = <<>>

====
